---- MODULE Spec2Model ----
(***************************************************************************)
(* Model of the single-threaded cooperative runtime of src/src/main.rs:    *)
(* MiniRuntime (ready queue `tasks`, deadline heap `timers`), the          *)
(* thread-local RUNTIME copy made by block_on, Task::poll over the two     *)
(* suspension primitives sleep and yield_now, and the join_all! macro.     *)
(*                                                                         *)
(* A future is a straight-line program of awaits and println! calls with a *)
(* cursor; one resumption runs it from the cursor to its next Pending or   *)
(* to its end.  Instant::now() reads the variable `now`; the clock moves   *)
(* between resumptions (action Tick).                                      *)
(*                                                                         *)
(* Spec is the program: spawn, block_on and its run loop.  FairSpec adds   *)
(* the fairness of the run loop and of the clock.  TimerSpec runs the same *)
(* loop on a scheduler whose own heap schedule_timer has filled.           *)
(***************************************************************************)
EXTENDS Integers, Sequences, FiniteSets, TLC

VARIABLES
    pc,        \* position of the caller / of block_on's loops
    tasks,     \* self.tasks  : VecDeque<Task>, a sequence of future ids
    timers,    \* self.timers : BinaryHeap<Timer>, a sequence of entries
    RUNTIME,   \* the thread-local Option<MiniRuntime>
    futures,   \* the Rc<RefCell<future>> cells the ready queue refers to, by id
    now,       \* the monotonic clock read by Instant::now()
    log,       \* what the futures have printed: <<id, msg>> in order
    last       \* what the most recent resumption did

vars == <<pc, tasks, timers, RUNTIME, futures, now, log, last>>

\* ------------------------------------------------------------------ bounds
MaxSpawn  == 1   \* spawn calls made before block_on
MaxYields == 2   \* yield_now awaits of one yielding future
MaxDur    == 2   \* longest sleep duration of a sleeping future
MaxTimers == 3   \* queue length up to which a suspended sleep is polled again
MaxSched  == 3   \* schedule_timer calls made on a scheduler before it runs

\* ------------------------------------------------------- program constants
Secs1 == 1       \* Duration::from_secs(1)
Secs2 == 2       \* Duration::from_secs(2)

NoWhen == 0 - 1  \* "no Instant yet": field not initialised / never polled

\* ---------------------------------------------------------------- futures
\* One await or statement of an async block.
sleep(d)    == [op |-> "sleep", d |-> d, msg |-> ""]
yield_now   == [op |-> "yield", d |-> 0, msg |-> ""]
println(m)  == [op |-> "println", d |-> 0, msg |-> m]
\* The bare SleepFuture { when } that SleepFuture::poll boxes as a new Task.
SleepFuture == [op |-> "SleepFuture", d |-> 0, msg |-> ""]

RECURSIVE Concat(_)
Concat(ss) == IF ss = <<>> THEN <<>> ELSE Head(ss) \o Concat(Tail(ss))

join_all_first(futs) == Head(futs)
\* join_all!(f1, .., fn) expands to  async { let _ = f1.await; ..; let _ = fn.await; }
join_all(futs) == Concat(futs)

\* The two sub-computations and the root of main().
h1 == <<println("Task 1 started"), sleep(Secs1), println("Task 1 done")>>
h2 == <<println("Task 2 started"), sleep(Secs2), println("Task 2 done")>>
main == <<println("Main task starting...")>> \o join_all(<<h1, h2>>)

RECURSIVE Repeat(_, _)
Repeat(x, k) == IF k = 0 THEN <<>> ELSE <<x>> \o Repeat(x, k - 1)

\* A future that awaits yield_now k times and then completes.
YieldProg(k) == Repeat(yield_now, k)
\* A future that awaits sleep(d) and then records its completion.
SleepProg(d) == <<sleep(d), println("done")>>

Programs ==
    {YieldProg(k) : k \in 0..MaxYields} \cup {SleepProg(d) : d \in 0..MaxDur}
        \cup {main}

\* Task { future: Rc::new(RefCell::new(Box::pin(future))) } : a fresh cell.
\*   when/evalAt : the SleepFuture the cursor is suspended in (NoWhen: none)
\*   flag        : YieldNow.0 of the YieldNow the cursor is suspended in
\*   polls       : number of resumptions of this cell so far
\*   firstAt     : the clock at its first resumption (NoWhen: not resumed yet)
Task(prog) ==
    [prog |-> prog, cur |-> 1, when |-> NoWhen, evalAt |-> NoWhen,
     flag |-> FALSE, polls |-> 0, firstAt |-> NoWhen]

Completed(f) == f.cur > Len(f.prog)

DeadlineNoDuration(t, d) == t
\* sleep(): SleepFuture { when: Instant::now() + duration }
Deadline(t, d) == t + d

SleepFuture_ready_strict(t, when) == t > when
\* SleepFuture::poll: Instant::now() >= self.when
SleepFuture_ready(t, when) == t >= when

YieldNow_ready_always(flag) == TRUE
\* YieldNow::poll: if self.0 { Ready } else { self.0 = true; Pending }
YieldNow_ready(flag) == flag

\* Task::poll at clock t: run the future from its cursor.  The result holds
\* the new cell, Ready/Pending, the lines printed, the deadlines handed to
\* schedule_timer, the sleeps passed and the primitive that suspended it.
\* The Context carries dummy_waker(), whose clone and wake are no-ops, so
\* cx.waker().clone() and wake_by_ref() change nothing.
RECURSIVE Task_poll(_, _)
Task_poll(f, t) ==
    IF Completed(f)
    THEN [f |-> f, res |-> "Ready", out |-> <<>>, reg |-> <<>>,
          passed |-> <<>>, prim |-> "none"]
    ELSE
      LET o == f.prog[f.cur]
          \* the await is over: its SleepFuture / YieldNow is dropped (a bare
          \* SleepFuture is the task's whole future and keeps its field)
          next == [f EXCEPT !.cur = @ + 1,
                            !.when = IF o.op = "SleepFuture" THEN @ ELSE NoWhen,
                            !.evalAt = NoWhen, !.flag = FALSE]
      IN
      CASE o.op = "println" ->
             LET r == Task_poll(next, t)
             IN [r EXCEPT !.out = <<o.msg>> \o @]
        [] o.op = "yield" ->
             IF YieldNow_ready(f.flag)
             THEN Task_poll(next, t)
             ELSE [f |-> [f EXCEPT !.flag = TRUE], res |-> "Pending",
                   out |-> <<>>, reg |-> <<>>, passed |-> <<>>,
                   prim |-> "yield"]
        [] OTHER ->   \* "sleep" or a bare "SleepFuture"
             LET first == f.when = NoWhen
                 w == IF first THEN Deadline(t, o.d) ELSE f.when
                 e == IF first THEN t ELSE f.evalAt
                 s == [evalAt |-> e, d |-> o.d, when |-> w, first |-> first]
             IN IF SleepFuture_ready(t, w)
                THEN LET r == Task_poll(next, t)
                     IN [r EXCEPT !.passed = <<s>> \o @]
                ELSE [f |-> [f EXCEPT !.when = w, !.evalAt = e],
                      res |-> "Pending", out |-> <<>>, reg |-> <<s>>,
                      passed |-> <<>>, prim |-> "sleep"]

\* ------------------------------------------------------------- MiniRuntime
None == [some |-> FALSE, tasks |-> <<>>, timers |-> <<>>]
\* Some(self.clone()): both queues copied, the Rc cells shared.
Some(ts, tm) == [some |-> TRUE, tasks |-> ts, timers |-> tm]

Timer_cmp_natural(self, other) ==
    IF self.when < other.when THEN 0 - 1
    ELSE IF self.when = other.when THEN 0 ELSE 1
\* impl Ord for Timer: other.when.cmp(&self.when)  (-1 Less, 0 Equal, 1 Greater)
Timer_cmp(self, other) ==
    IF other.when < self.when THEN 0 - 1
    ELSE IF other.when = self.when THEN 0 ELSE 1

\* BinaryHeap<Timer>: a collection ordered by Timer_cmp, written here as the
\* sequence of its entries from greatest to least.  An entry owns its Task,
\* the only reference to that cell, so the cell is held in the entry itself.
\* BinaryHeap::push
heap_push(h, e) ==
    LET k == Cardinality({i \in 1..Len(h) : Timer_cmp(h[i], e) >= 0})
    IN SubSeq(h, 1, k) \o <<e>> \o SubSeq(h, k + 1, Len(h))
\* BinaryHeap::peek / pop: the positions of a greatest entry under Timer_cmp
heap_top(h) == {i \in 1..Len(h) : \A j \in 1..Len(h) : Timer_cmp(h[i], h[j]) >= 0}
heap_remove(h, i) == SubSeq(h, 1, i - 1) \o SubSeq(h, i + 1, Len(h))

schedule_timer_once(h, when, task) ==
    IF \E i \in 1..Len(h) : h[i].when = when
    THEN h
    ELSE heap_push(h, [when |-> when, task |-> task])
\* MiniRuntime::schedule_timer
schedule_timer(h, when, task) == heap_push(h, [when |-> when, task |-> task])

\* SleepFuture::poll, lines 131-133: Task { .. Box::pin(Self { when: self.when }) }
Continuation(when) == [Task(<<SleepFuture>>) EXCEPT !.when = when]

self_schedule_timer(tm, rt, reg) ==
    [self |-> IF reg # <<>>
              THEN schedule_timer(tm, reg[1].when, Continuation(reg[1].when))
              ELSE tm,
     RUNTIME |-> rt]
\* SleepFuture::poll, lines 134-138: RUNTIME.with(|rt| if let Some(runtime)
\* = rt.borrow_mut().as_mut() { runtime.schedule_timer(self.when, task) }).
\* tm is the heap of the scheduler running the loop, rt the thread-local
\* value, reg the deadlines the poll registers; the result is both after it.
RUNTIME_with(tm, rt, reg) ==
    [self |-> tm,
     RUNTIME |-> IF rt.some /\ reg # <<>>
                 THEN [rt EXCEPT !.timers =
                         schedule_timer(@, reg[1].when,
                                        Continuation(reg[1].when))]
                 ELSE rt]

\* VecDeque operations as block_on and spawn use them.
pop_back(q) == [task |-> q[Len(q)], rest |-> SubSeq(q, 1, Len(q) - 1)]
pop_front(q) == [task |-> Head(q), rest |-> Tail(q)]
push_front(q, id) == <<id>> \o q
push_back(q, id) == Append(q, id)

wake_enqueues(q, id) == Append(q, id)
\* dummy_waker(): wake and wake_by_ref are `fn noop(_: *const ()) {}`
wake_by_ref(q, id) == q

loop_cond_and(ts, tm) == ts # <<>> /\ tm # <<>>
\* while !self.tasks.is_empty() || !self.timers.is_empty()
loop_cond(ts, tm) == ts # <<>> \/ tm # <<>>

expired_always(when, t) == TRUE
\* if timer.when <= Instant::now()
expired(when, t) == when <= t

requeue_ready(res) == res = "Ready"
\* if let Poll::Pending = task.poll(&mut cx) { self.tasks.push_back(task) }
requeue(res) == res = "Pending"

NoPoll == [task |-> 0, res |-> "none", reg |-> <<>>, passed |-> <<>>,
           prim |-> "none"]

Init ==
    /\ pc = "new"
    /\ tasks = <<>>
    /\ timers = <<>>
    /\ RUNTIME = None
    /\ futures = <<>>
    /\ now = 0
    /\ log = <<>>
    /\ last = NoPoll

\* MiniRuntime::spawn, called by the owner of the runtime before block_on.
spawn ==
    /\ pc = "new"
    /\ Len(futures) < MaxSpawn
    /\ \E p \in Programs :
         /\ futures' = Append(futures, Task(p))
         /\ tasks' = push_back(tasks, Len(futures) + 1)
    /\ UNCHANGED <<pc, timers, RUNTIME, now, log, last>>

\* MiniRuntime::block_on up to the loop: spawn the root, publish the clone.
block_on ==
    /\ pc = "new"
    /\ \E p \in Programs :
         /\ futures' = Append(futures, Task(p))
         /\ tasks' = push_back(tasks, Len(futures) + 1)
    /\ RUNTIME' = Some(tasks', timers)
    /\ pc' = "loop"
    /\ UNCHANGED <<timers, now, log, last>>

\* The outer while condition.
LoopTest ==
    /\ pc = "loop"
    /\ pc' = IF loop_cond(tasks, timers) THEN "inner" ELSE "returned"
    /\ UNCHANGED <<tasks, timers, RUNTIME, futures, now, log, last>>

\* One iteration of the inner while-let: pop, poll, push back if Pending.
\* The poll of a sleep that is still suspended builds the continuation Task
\* and hands it to the RUNTIME copy's schedule_timer.  The busy re-polling
\* of a suspended sleep is cut off at MaxTimers entries: from there on the
\* clock moves before that sleep is polled again.
PollTask ==
    /\ pc = "inner"
    /\ tasks # <<>>
    /\ LET id == pop_front(tasks).task
           rest == pop_front(tasks).rest
           r == Task_poll(futures[id], now)
           polled == [r.f EXCEPT !.polls = @ + 1,
                                 !.firstAt = IF @ = NoWhen THEN now ELSE @]
           \* YieldNow::poll calls cx.waker().wake_by_ref() before Pending
           woken == IF r.prim = "yield" THEN wake_by_ref(rest, id) ELSE rest
       IN /\ (r.reg # <<>> /\ ~r.reg[1].first) => Len(RUNTIME.timers) < MaxTimers
          /\ futures' = [futures EXCEPT ![id] = polled]
          /\ tasks' = IF requeue(r.res) THEN push_back(woken, id) ELSE woken
          /\ timers' = RUNTIME_with(timers, RUNTIME, r.reg).self
          /\ RUNTIME' = RUNTIME_with(timers, RUNTIME, r.reg).RUNTIME
          /\ log' = log \o [i \in 1..Len(r.out) |-> <<id, r.out[i]>>]
          /\ last' = [task |-> id, res |-> r.res, reg |-> r.reg,
                      passed |-> r.passed, prim |-> r.prim]
    /\ UNCHANGED <<pc, now>>

\* The inner while-let finds the ready queue empty.
InnerExit ==
    /\ pc = "inner"
    /\ tasks = <<>>
    /\ pc' = "promote"
    /\ UNCHANGED <<tasks, timers, RUNTIME, futures, now, log, last>>

\* Timer promotion: peek self.timers; if the top has expired, pop it and
\* append its task to the ready queue.
Promote ==
    /\ pc = "promote"
    /\ IF timers # <<>>
       THEN \E i \in heap_top(timers) :
              IF expired(timers[i].when, now)
              THEN /\ timers' = heap_remove(timers, i)
                   /\ futures' = Append(futures, timers[i].task)
                   /\ tasks' = push_back(tasks, Len(futures) + 1)
              ELSE UNCHANGED <<tasks, timers, futures>>
       ELSE UNCHANGED <<tasks, timers, futures>>
    /\ pc' = "loop"
    /\ UNCHANGED <<RUNTIME, now, log, last>>

\* Some sleep in the ready queue is still short of its deadline.
Waiting ==
    \E i \in 1..Len(tasks) :
        /\ futures[tasks[i]].when # NoWhen
        /\ futures[tasks[i]].when > now

\* Some entry of the running scheduler's deadline queue has not expired: the
\* outer loop spins on it.
Spinning == \E i \in 1..Len(timers) : timers[i].when > now

\* The clock advances while block_on runs.  It is let to move only while a
\* sleep or a deadline entry is waiting for it: every comparison is against
\* a deadline taken relative to the clock, so other advances change no
\* outcome.
Tick ==
    /\ pc \in {"loop", "inner", "promote"}
    /\ Waiting \/ Spinning
    /\ now' = now + 1
    /\ UNCHANGED <<pc, tasks, timers, RUNTIME, futures, log, last>>

Next ==
    \/ spawn
    \/ block_on
    \/ LoopTest
    \/ PollTask
    \/ InnerExit
    \/ Promote
    \/ Tick

Spec == Init /\ [][Next]_vars

\* The run loop keeps running (it is the calling thread), and the clock keeps
\* advancing.
FairSpec ==
    /\ Init /\ [][Next]_vars
    /\ WF_vars(LoopTest \/ PollTask \/ InnerExit \/ Promote)
    /\ WF_vars(Tick)

\* MiniRuntime::schedule_timer applied to the scheduler itself, before it
\* runs: the one way a Timer gets into self.timers, where block_on's timer
\* promotion looks for it.  The entry is what SleepFuture::poll builds, a
\* bare SleepFuture under its own deadline.
ScheduleTimer ==
    /\ pc = "new"
    /\ Len(timers) < MaxSched
    /\ \E w \in 0..MaxDur :
         timers' = schedule_timer(timers, w, Continuation(w))
    /\ UNCHANGED <<pc, tasks, RUNTIME, futures, now, log, last>>

TimerNext ==
    \/ ScheduleTimer
    \/ block_on
    \/ LoopTest
    \/ PollTask
    \/ InnerExit
    \/ Promote
    \/ Tick

\* The run loop over a scheduler whose own deadline queue has been filled.
\* No run of Spec fills it (sleep writes to the RUNTIME copy), so the Timer
\* ordering and the promotion step are exercised here.
TimerSpec == Init /\ [][TimerNext]_vars

\* ------------------------------------------------------------ observations
\* The tasks of the run: those spawned before block_on, and the root.
Spawned == 1..Len(RUNTIME.tasks)
\* The continuation tasks that sleep has registered under a deadline and
\* that are still held by a deadline queue.
Registered ==
    {timers[i].task : i \in 1..Len(timers)}
        \cup {RUNTIME.timers[i].task : i \in 1..Len(RUNTIME.timers)}

RECURSIVE SumPolls(_)
SumPolls(fs) == IF fs = <<>> THEN 0 ELSE Head(fs).polls + SumPolls(Tail(fs))
\* Resumptions performed by the run loop so far.
Resumptions == SumPolls(futures)
\* A step that is one resumption by the run loop.
Resumes == SumPolls(futures') = SumPolls(futures) + 1

Printed(l, i, m) == \E k \in 1..Len(l) : l[k] = <<i, m>>
Recorded(l, i) == Printed(l, i, "done")

IsSleeper(i) == \E d \in 0..MaxDur : futures[i].prog = SleepProg(d)
Dur(i) == futures[i].prog[1].d

NeverSuspends(prog) ==
    \A k \in 1..Len(prog) :
        \/ prog[k].op = "println"
        \/ prog[k].op = "sleep" /\ prog[k].d = 0

\* ------------------------------------------------------------------ claims

\* C1: whenever block_on has returned, the root, every task spawned before
\* the call and every task registered during the run (the continuations that
\* sleep registers under a deadline) has completed.
C1_AllRegisteredCompleted ==
    pc = "returned" =>
        /\ \A i \in Spawned : Completed(futures[i])
        /\ \A c \in Registered : Completed(c)

\* C2 (as claimed): of two tasks sleeping d1 < d2, whichever was spawned
\* first, the d2 task never has its completion recorded while the d1 task's
\* is not.
C2_ShorterSleepFirst ==
    \A i, j \in 1..Len(futures) :
        (IsSleeper(i) /\ IsSleeper(j) /\ Dur(i) < Dur(j) /\ Recorded(log, j))
            => Recorded(log, i)

\* C2 (amended): when the d1 task is spawned before the d2 task, the d2
\* task's completion is recorded ahead of the d1 task's only once the clock
\* has reached the d1 task's deadline as well, the d1 task then sitting in
\* the ready queue to complete at its next resumption.
C2_ShorterSleepDueFirst ==
    \A i, j \in 1..Len(futures) :
        (/\ i < j /\ IsSleeper(i) /\ IsSleeper(j) /\ Dur(i) < Dur(j)
         /\ Recorded(log, j) /\ ~Recorded(log, i))
            => /\ futures[i].when # NoWhen
               /\ futures[i].when <= now
               /\ \E k \in 1..Len(tasks) : tasks[k] = i

\* C2 witness: with the d1 task spawned first, the d2 task's completion is
\* recorded and the d1 task's is not.
C2_Witness ==
    \E i, j \in 1..Len(futures) :
        /\ i < j /\ IsSleeper(i) /\ IsSleeper(j) /\ Dur(i) < Dur(j)
        /\ Dur(i) > 0
        /\ Recorded(log, j) /\ ~Recorded(log, i)

\* C3: a resumption passes a sleep(d) only when the clock is at least the
\* clock of the sleep's first evaluation plus d, and it reports suspension in
\* a sleep only when the clock is below that deadline.
C3_SleepNotEarly ==
    [][Resumes =>
         /\ \A k \in 1..Len(last'.passed) :
              now >= last'.passed[k].evalAt + last'.passed[k].d
         /\ last'.prim = "sleep" =>
              now < last'.reg[1].evalAt + last'.reg[1].d]_vars

\* C3 witness: a resumption passed a sleep of positive duration that an
\* earlier resumption had been suspended in.
C3_Witness ==
    \E k \in 1..Len(last.passed) :
        last.passed[k].d > 0 /\ ~last.passed[k].first

\* C4: when block_on has returned and every task of the run awaits yield_now
\* k times and nothing else, all N tasks have completed, each was resumed
\* k + 1 times, and the run loop performed N * (k + 1) resumptions.
C4_YieldResumptions ==
    pc = "returned" =>
        \A k \in 0..MaxYields :
            (\A i \in Spawned : futures[i].prog = YieldProg(k))
                => /\ \A i \in Spawned :
                        Completed(futures[i]) /\ futures[i].polls = k + 1
                   /\ Resumptions = Len(RUNTIME.tasks) * (k + 1)

\* C4 witness: block_on has returned from several tasks that each yielded
\* once.
C4_Witness ==
    /\ pc = "returned"
    /\ Len(RUNTIME.tasks) >= 2
    /\ \A i \in Spawned : futures[i].prog = YieldProg(1)

\* C5: with the clock advancing, block_on eventually returns with every task
\* of the run completed.
C5_Terminates ==
    (pc = "loop") ~> (pc = "returned" /\ \A i \in Spawned : Completed(futures[i]))

\* C5 witness: block_on has returned and two tasks that slept for the same
\* positive duration have both completed.
C5_Witness ==
    /\ pc = "returned"
    /\ \E i, j \in Spawned :
         /\ i # j /\ IsSleeper(i) /\ IsSleeper(j)
         /\ Dur(i) = Dur(j) /\ Dur(i) > 0
         /\ Completed(futures[i]) /\ Completed(futures[j])
         /\ futures[i].polls >= 2 /\ futures[j].polls >= 2

\* C6: after a resumption that was suspended in a sleep, and before the run
\* loop has reached timer promotion, the deadline queue of the scheduler
\* running block_on holds an entry keyed by that sleep's deadline.
C6_EntryInRunningScheduler ==
    (pc = "inner" /\ last.prim = "sleep") =>
        \E i \in 1..Len(timers) : timers[i].when = last.reg[1].when

\* C7: a sleep of zero duration is passed in the resumption that first
\* evaluates it: that resumption is not suspended in it, and unless a later
\* sleep of the same resumption suspends it, no deadline queue gets an entry.
C7_ZeroSleepImmediate ==
    [][Resumes =>
         /\ last'.prim = "sleep" => last'.reg[1].d # 0
         /\ \A k \in 1..Len(last'.passed) :
              last'.passed[k].d = 0 => last'.passed[k].first
         /\ ((\E k \in 1..Len(last'.passed) : last'.passed[k].d = 0)
                /\ last'.prim # "sleep")
              => timers' = timers /\ RUNTIME'.timers = RUNTIME.timers]_vars

\* C7 witness: a resumption evaluated a zero-duration sleep and went past it.
C7_Witness ==
    \E k \in 1..Len(last.passed) :
        last.passed[k].d = 0 /\ last.passed[k].first

\* C8: join_all interleaves its sub-computations: once the first one has
\* been suspended in its sleep the second one has started, so that both have
\* started before either has finished.
C8_JoinAllInterleaves ==
    \A i \in 1..Len(futures) :
        futures[i].prog = main =>
            /\ Printed(log, i, "Task 1 done") => Printed(log, i, "Task 2 started")
            /\ (Printed(log, i, "Task 1 started") /\ futures[i].when # NoWhen)
                  => Printed(log, i, "Task 2 started")

\* C9: spawn, called by the owner or by block_on for its root, appends the
\* one new, never resumed task at the tail of the ready queue, keeps the
\* tasks already there in order, resumes nothing and leaves the deadline
\* queue alone; a spawn call on its own changes nothing else.
C9_SpawnFrame ==
    [][pc = "new" =>
         /\ Len(futures') = Len(futures) + 1
         /\ SubSeq(futures', 1, Len(futures)) = futures
         /\ futures'[Len(futures')].polls = 0
         /\ futures'[Len(futures')].cur = 1
         /\ Len(tasks') = Len(tasks) + 1
         /\ SubSeq(tasks', 1, Len(tasks)) = tasks
         /\ tasks'[Len(tasks')] = Len(futures')
         /\ timers' = timers
         /\ log' = log /\ last' = last /\ now' = now
         /\ pc' = "new" => RUNTIME' = RUNTIME]_vars

\* C9 witness: spawn has acted on a ready queue that already held a task,
\* and nothing has been resumed yet.
C9_Witness ==
    /\ Len(tasks) = 2 /\ tasks[1] # tasks[2]
    /\ Resumptions = 0

\* C10: on a scheduler with nothing spawned, block_on of a root that never
\* suspends performs exactly one resumption, after which both queues are
\* empty and the loop condition is false; no timer is registered or waited on.
C10_FreshReturnsAtOnce ==
    (RUNTIME.some /\ Len(RUNTIME.tasks) = 1 /\ NeverSuspends(futures[1].prog))
        => /\ Resumptions <= 1
           /\ Resumptions = 1 =>
                /\ tasks = <<>> /\ Completed(futures[1])
                /\ ~loop_cond(tasks, timers)
           /\ pc = "returned" => Resumptions = 1
           /\ timers = <<>> /\ RUNTIME.timers = <<>>
           /\ ~Waiting

\* C10 witness: block_on has returned from such a root.
C10_Witness ==
    /\ pc = "returned"
    /\ Len(RUNTIME.tasks) = 1
    /\ NeverSuspends(futures[1].prog)

\* C11: every resumption is made inside the inner drain loop and takes the
\* head of the ready queue; a task found still suspended goes back to the
\* tail, behind all the others in their old order, in that same step and so
\* before any timer promotion; a completed one is dropped.  Hence the task
\* resumed has never been resumed more often than a task queued behind it:
\* no task overtakes another.
C11_RoundRobin ==
    [][Resumes =>
         /\ pc = "inner" /\ pc' = "inner"
         /\ tasks # <<>>
         /\ last'.task = Head(tasks)
         /\ futures'[Head(tasks)].polls = futures[Head(tasks)].polls + 1
         /\ tasks' = IF last'.res = "Pending"
                     THEN Append(Tail(tasks), Head(tasks))
                     ELSE Tail(tasks)
         /\ timers' = timers
         /\ \A k \in 2..Len(tasks) :
              futures[tasks[k]].polls >= futures[Head(tasks)].polls]_vars

\* C11 witness: a task resumed for the second time has gone back to the tail
\* behind another task that has also been resumed and is still suspended.
C11_Witness ==
    /\ pc = "inner"
    /\ Len(tasks) = 2
    /\ last.task = tasks[2] /\ last.res = "Pending"
    /\ futures[tasks[2]].polls >= 2
    /\ futures[tasks[1]].polls >= 1

\* C12: block_on returns exactly when the running scheduler's ready queue and
\* deadline queue are both empty: it has never returned with either of them
\* non-empty, the loop test goes on into the loop body exactly when one of
\* them is non-empty, it is only the loop test that returns, and nothing
\* runs after the return.
C12_ExitsExactlyWhenEmpty ==
    /\ [](pc = "returned" => tasks = <<>> /\ timers = <<>>)
    /\ [][/\ (pc = "loop" /\ pc' # "loop") =>
                /\ pc' = "returned" <=> (tasks = <<>> /\ timers = <<>>)
                /\ pc' = "inner" <=> (tasks # <<>> \/ timers # <<>>)
          /\ pc' = "returned" => pc = "loop"
          /\ pc # "returned"]_vars

\* C12 witness: block_on has returned after resuming tasks more than once,
\* while the thread-local copy still holds deadline entries.
C12_Witness ==
    /\ pc = "returned"
    /\ Resumptions >= 2
    /\ RUNTIME.timers # <<>>

\* C13 (as claimed): a task is held by one structure only; a task in the
\* ready queue that is suspended in a sleep has no entry for that sleep's
\* deadline in a deadline queue, neither the running scheduler's nor the
\* thread-local copy's.
C13_SingleHolder ==
    \A k \in 1..Len(tasks) :
        LET f == futures[tasks[k]]
        IN (f.when # NoWhen /\ f.prog[f.cur].op = "sleep") =>
              ~\E c \in Registered : c.when = f.when

\* Task::poll of this cell has returned Ready: it has been resumed and its
\* future has run to its end.
HasCompleted(f) == f.polls > 0 /\ Completed(f)

\* C14: a task that has completed is dropped from the ready queue and is
\* never resumed again (its cell never changes again), although the
\* thread-local copy of the scheduler still refers to it.
C14_CompletedNeverResumed ==
    /\ [](\A k \in 1..Len(tasks) : ~HasCompleted(futures[tasks[k]]))
    /\ [][\A i \in 1..Len(futures) :
            HasCompleted(futures[i]) => futures'[i] = futures[i]]_vars

\* C14 witness: a task has completed, the thread-local copy's queue still
\* names it, and the run loop has since resumed another task.
C14_Witness ==
    /\ pc = "inner"
    /\ last.task # 0
    /\ \E k \in 1..Len(RUNTIME.tasks) :
         /\ HasCompleted(futures[RUNTIME.tasks[k]])
         /\ RUNTIME.tasks[k] # last.task

\* The positions of the entries of h with the smallest wake instant.
MinWhen(h) == {i \in 1..Len(h) : \A j \in 1..Len(h) : h[i].when <= h[j].when}

\* C15: entries leave the running scheduler's deadline queue only in the
\* timer step that ends an outer iteration, and that step moves at most one:
\* either it leaves both queues alone, or it removes one entry that has the
\* smallest wake instant, that instant being <= now, and appends that
\* entry's task at the tail of the ready queue, whatever else has expired.
C15_PromotesAtMostOne ==
    [][/\ Len(timers') < Len(timers) => (pc = "promote" /\ pc' = "loop")
       /\ (pc = "promote" /\ pc' = "loop") =>
            \/ timers' = timers /\ tasks' = tasks /\ futures' = futures
            \/ \E i \in MinWhen(timers) :
                 /\ timers[i].when <= now
                 /\ timers' = heap_remove(timers, i)
                 /\ futures' = Append(futures, timers[i].task)
                 /\ tasks' = Append(tasks, Len(futures'))]_vars

\* C15 witness: the timer step has just promoted one task (it is alone in the
\* ready queue and has not been resumed) while another entry that has also
\* expired is still in the deadline queue.
C15_Witness ==
    /\ pc = "loop"
    /\ Len(tasks) = 1
    /\ futures[tasks[1]].prog = <<SleepFuture>>
    /\ futures[tasks[1]].polls = 0
    /\ \E i \in 1..Len(timers) : timers[i].when <= now

\* The continuation tasks promoted so far, in the order of their promotion.
Promoted == SubSeq(futures, Len(RUNTIME.tasks) + 1, Len(futures))
Holds(seq, w) == Cardinality({i \in 1..Len(seq) : seq[i].when = w})

\* C16: the deadline queue is min-ordered on the wake instant.  peek and pop
\* pick an entry with the smallest wake instant held, and there is one to
\* pick whenever the queue is non-empty; a push adds its entry and keeps all
\* the others, equal deadlines included; entries pushed before the run are
\* promoted in non-decreasing deadline order; and when block_on has returned
\* every entry pushed has been promoted, as many per deadline as were pushed.
C16_MinOrdered ==
    /\ [](/\ heap_top(timers) \subseteq MinWhen(timers)
          /\ timers # <<>> => heap_top(timers) # {}
          /\ \A i, j \in 1..Len(Promoted) :
               i < j => Promoted[i].when <= Promoted[j].when
          /\ (pc = "returned" /\ ~\E k \in 1..Len(futures[1].prog) :
                                      futures[1].prog[k].op = "sleep")
               => \A w \in 0..MaxDur :
                     Holds(Promoted, w) = Holds(RUNTIME.timers, w))
    /\ [][/\ (pc = "new" /\ timers' # timers) =>
               \E i \in 1..Len(timers') : heap_remove(timers', i) = timers
          /\ (pc = "promote" /\ timers' # timers) =>
               \E i \in MinWhen(timers) :
                 /\ timers' = heap_remove(timers, i)
                 /\ futures'[Len(futures')].when = timers[i].when]_vars

\* C16 witness: block_on has returned after promoting three entries, two of
\* them with equal deadlines and one with a later deadline.
C16_Witness ==
    /\ pc = "returned"
    /\ \E i, j, k \in 1..Len(Promoted) :
         /\ i < j /\ j < k
         /\ Promoted[i].when = Promoted[j].when
         /\ Promoted[j].when < Promoted[k].when

\* C17: the deadline queue of the scheduler that runs the loop is empty in
\* every reachable state: a resumption that suspends in a sleep adds its
\* entry to the thread-local copy and leaves the running scheduler's queue
\* alone.  So the timer step never changes anything, and the loop test goes
\* on exactly when the ready queue is non-empty.
C17_OwnTimersEmpty ==
    /\ [](timers = <<>>)
    /\ [][/\ (Resumes /\ last'.prim = "sleep") =>
               /\ Len(RUNTIME'.timers) = Len(RUNTIME.timers) + 1
               /\ timers' = timers
          /\ (pc = "promote" /\ pc' = "loop") =>
               /\ tasks' = tasks /\ futures' = futures /\ timers' = timers
          /\ (pc = "loop" /\ pc' # "loop") =>
               /\ pc' = "inner" <=> tasks # <<>>
               /\ pc' = "returned" <=> tasks = <<>>]_vars

\* C17 witness: the timer step has run and left the ready queue empty while
\* the thread-local copy holds an entry that has expired.
C17_Witness ==
    /\ pc = "loop"
    /\ Resumptions > 0
    /\ tasks = <<>>
    /\ \E i \in 1..Len(RUNTIME.timers) : RUNTIME.timers[i].when <= now

Count(q, id) == Cardinality({k \in 1..Len(q) : q[k] = id})

\* C18: between resumptions (a resumption is one step here, so no task is
\* ever out of the queue in a state) every task that has not completed is in
\* the ready queue exactly once, a task suspended in a sleep included, and a
\* task that has completed is not in it: none is lost, none is duplicated.
C18_OnceInReadyQueue ==
    /\ \A i \in 1..Len(futures) :
         Count(tasks, i) = IF HasCompleted(futures[i]) THEN 0 ELSE 1
    /\ \A k \in 1..Len(tasks) : tasks[k] \in 1..Len(futures)

\* C18 witness: two tasks are queued, one suspended in a sleep short of its
\* deadline and resumed at least twice, the other suspended in yield_now.
C18_Witness ==
    /\ Len(tasks) = 2
    /\ \E i, j \in 1..Len(futures) :
         /\ Count(tasks, i) = 1 /\ Count(tasks, j) = 1
         /\ futures[i].when > now /\ futures[i].polls >= 2
         /\ futures[j].flag

\* The resumptions of cell f that ended suspended in a sleep: all of them but
\* the one that returned Ready and those that ended suspended in a yield_now
\* (one for each yield_now behind the cursor or flagged at it).
SleepPolls(f) ==
    f.polls - (IF HasCompleted(f) THEN 1 ELSE 0)
            - Cardinality({k \in 1..Len(f.prog) :
                             /\ f.prog[k].op = "yield"
                             /\ k < f.cur \/ (k = f.cur /\ f.flag)})
RECURSIVE SumSleepPolls(_)
SumSleepPolls(fs) ==
    IF fs = <<>> THEN 0 ELSE SleepPolls(Head(fs)) + SumSleepPolls(Tail(fs))

\* C19: the deadline queue of the thread-local copy only grows.  Its size is
\* the number of resumptions so far that ended suspended in a sleep; such a
\* resumption found now < deadline and adds exactly one entry, under that
\* deadline, keeping all the others; every other step, the timer step and
\* the return of block_on included, leaves the queue as it is.
C19_CopyOnlyGrows ==
    /\ [](Len(RUNTIME.timers) = SumSleepPolls(futures))
    /\ [][IF Resumes /\ last'.prim = "sleep"
          THEN /\ now < last'.reg[1].when
               /\ \E i \in 1..Len(RUNTIME'.timers) :
                    /\ RUNTIME'.timers[i].when = last'.reg[1].when
                    /\ heap_remove(RUNTIME'.timers, i) = RUNTIME.timers
          ELSE RUNTIME'.timers = RUNTIME.timers]_vars

\* C19 witness: block_on has returned from a run of the root alone and the
\* copy still holds two entries under the same deadline, left by two
\* resumptions of one sleep.
C19_Witness ==
    /\ pc = "returned"
    /\ Len(RUNTIME.tasks) = 1
    /\ \E i, j \in 1..Len(RUNTIME.timers) :
         i # j /\ RUNTIME.timers[i].when = RUNTIME.timers[j].when

\* The durations of all the sleeps a program awaits, added up.
RECURSIVE SumDur(_)
SumDur(prog) ==
    IF prog = <<>> THEN 0
    ELSE (IF Head(prog).op = "sleep" THEN Head(prog).d ELSE 0)
            + SumDur(Tail(prog))

\* C20: the deadline of a sleep is the clock at the resumption that first
\* evaluates it plus its duration, and stays what it is while the task is
\* suspended in it; a sleep evaluated in the resumption that passes an
\* earlier sleep is evaluated at or after that sleep's deadline; so a task
\* has completed no earlier than the sum of its sleeps after its first
\* resumption, and the root of main(), a join_all over sleeps of Secs1 and
\* Secs2, no earlier than Secs1 + Secs2 after it.
C20_SequentialDeadlines ==
    /\ [](\A i \in 1..Len(futures) :
            LET f == futures[i]
            IN /\ (f.when # NoWhen /\ f.prog[f.cur].op = "sleep") =>
                     /\ f.when = f.evalAt + f.prog[f.cur].d
                     /\ f.evalAt >= f.firstAt + SumDur(SubSeq(f.prog, 1, f.cur - 1))
               /\ HasCompleted(f) => now >= f.firstAt + SumDur(f.prog)
               /\ (HasCompleted(f) /\ f.prog = main) =>
                     now >= f.firstAt + Secs1 + Secs2)
    /\ [][/\ \A i \in 1..Len(futures) :
               (futures[i].when # NoWhen /\ futures'[i].cur = futures[i].cur) =>
                  /\ futures'[i].when = futures[i].when
                  /\ futures'[i].evalAt = futures[i].evalAt
          /\ (Resumes /\ last'.passed # <<>> /\ last'.reg # <<>>) =>
               /\ last'.reg[1].first
               /\ last'.reg[1].evalAt >= last'.passed[Len(last'.passed)].when]_vars

\* C20 witness: the root of main(), first resumed after the clock had moved,
\* has completed exactly Secs1 + Secs2 later, which is later than the longer
\* of its two sleeps alone.
C20_Witness ==
    \E i \in 1..Len(futures) :
        /\ futures[i].prog = main
        /\ HasCompleted(futures[i])
        /\ futures[i].firstAt > 0
        /\ now = futures[i].firstAt + Secs1 + Secs2
        /\ now > futures[i].firstAt + (IF Secs1 > Secs2 THEN Secs1 ELSE Secs2)

====
